---------------------------- MODULE Spec2Model ----------------------------
(***************************************************************************)
(* find-big-prime (src/src/main.rs): generation of probable primes and     *)
(* safe primes with a small-prime precheck and the Miller-Rabin test.      *)
(*                                                                         *)
(* The program is single threaded.  Its state is the control point pc, the *)
(* stack of return points, and the locals of the five functions.  Every    *)
(* draw from OsRng is an input chosen with \E from the set the BigUint     *)
(* library can return.  A caller enters through main or calls              *)
(* generate_probable_prime, generate_safe_prime, is_probable_prime or      *)
(* factor_out_twos directly (entry).                                       *)
(***************************************************************************)
EXTENDS Integers, Sequences, FiniteSets

VARIABLES
    entry,      \* the function the caller invoked
    bits,       \* Args.bits / the bits parameter of the entry point
    rounds,     \* Args.rounds / the rounds parameter
    safe,       \* Args.safe
    n0,         \* the argument of a direct is_probable_prime / factor_out_twos call
    pc,         \* control point
    stack,      \* return points of the calls in progress, innermost first
    gbits,      \* generate_probable_prime: its bits parameter
    gen_n,      \* generate_probable_prime: the candidate n
    safe_q,     \* generate_safe_prime: q
    safe_p,     \* generate_safe_prime: p
    mr_n,       \* is_probable_prime: n
    mr_s,       \* is_probable_prime: s
    mr_d,       \* is_probable_prime: d
    mr_i,       \* is_probable_prime: rounds of the 'witness loop completed
    mr_a,       \* is_probable_prime: the witness a of the round in progress
    mr_x,       \* is_probable_prime: x
    mr_k,       \* is_probable_prime: the index of the inner loop `for _ in 1..s`
    verdict,    \* is_probable_prime: how the latest round ended
    fot_n,      \* factor_out_twos: n
    fot_d,      \* factor_out_twos: d
    fot_s,      \* factor_out_twos: s
    res,        \* value returned by the latest is_probable_prime call
    val,        \* value returned by the latest generate_* call
    drawn,      \* history: calls of random_range made by the current is_probable_prime call
    accepted,   \* history: <<n, rounds completed>> of the is_probable_prime calls that returned true
    lastgen     \* history: value the latest generate_probable_prime call returned

vars == <<entry, bits, rounds, safe, n0, pc, stack, gbits, gen_n, safe_q, safe_p,
          mr_n, mr_s, mr_d, mr_i, mr_a, mr_x, mr_k, verdict, fot_n, fot_d, fot_s, res, val,
          drawn, accepted, lastgen>>

argv == <<entry, bits, rounds, safe, n0>>
genv == <<gbits, gen_n>>
safev == <<safe_q, safe_p>>
mrv == <<mr_n, mr_s, mr_d, mr_i, mr_a, mr_x, mr_k, verdict>>
fotv == <<fot_n, fot_d, fot_s>>
hist == <<drawn, accepted, lastgen>>

(***************************************************************************)
(* Bounds of the model.                                                    *)
(***************************************************************************)
\* Largest bit length requested from the entry points with rounds 0..MaxRounds.
MaxBits == 7
\* A bit length at which composites pass small_prime_precheck (61 * 61 = 3721),
\* requested from generate_probable_prime with rounds 0 and 1.
WideBits == 12
\* Largest rounds argument.
MaxRounds == 2
\* is_probable_prime and factor_out_twos are called directly on 0..MaxN and on KnownN.
MaxN == 64
\* Width of the counter s of factor_out_twos in the model (u32 in the source):
\* s counts modulo MaxS.  No positive n of the model shifts that often.
MaxS == 16

\* The primes and the Carmichael number the specification names.
KnownN == {97, 561, 7919}

TestN == (0..MaxN) \cup KnownN

(***************************************************************************)
(* Program constants.                                                      *)
(***************************************************************************)
MinBits == 512

SafeMinBits == 3

SMALLS == <<3, 5, 7, 11, 13, 17, 19, 23, 29, 31, 37, 41, 43, 47, 53, 59>>

(***************************************************************************)
(* BigUint arithmetic (num_bigint), as the program uses it.                *)
(***************************************************************************)
RECURSIVE Pow2(_)
Pow2(k) == IF k = 0 THEN 1 ELSE 2 * Pow2(k - 1)

is_even(v) == v % 2 = 0

\* BigUint::bits(): the position of the highest set bit plus one.
RECURSIVE BitLen(_)
BitLen(v) == IF v = 0 THEN 0 ELSE 1 + BitLen(v \div 2)

\* n.set_bit(k, true)
SetBit(v, k) == IF (v \div Pow2(k)) % 2 = 1 THEN v ELSE v + Pow2(k)

\* n |= 1
OrOne(v) == IF v % 2 = 1 THEN v ELSE v + 1

\* a.modpow(e, m): square and multiply.
RECURSIVE modpow(_, _, _)
modpow(b, e, m) ==
    IF m = 1 THEN 0
    ELSE IF e = 0 THEN 1
    ELSE LET h == modpow(b, e \div 2, m)
         IN  IF e % 2 = 1 THEN (((h ^ 2) % m) * (b % m)) % m ELSE (h ^ 2) % m

\* rng.gen_biguint(bit_size): every value below 2^bit_size.
gen_biguint(b) == 0..(Pow2(b) - 1)

\* rng.gen_biguint_range(lbound, ubound): every value of [lbound, ubound).
gen_biguint_range(lbound, ubound) == lbound..(ubound - 1)


(***************************************************************************)
(* Pure functions of main.rs.                                              *)
(***************************************************************************)
\* random_range(low, high, rng): the values it can return.
random_range(low, high) ==
    IF low = high THEN {low}
    ELSE LET high_exclusive == high + 1
         IN  gen_biguint_range(low, high_exclusive)

\* The for loop of small_prime_precheck from SMALLS[k] on.
RECURSIVE PrecheckFrom(_, _)
PrecheckFrom(v, k) ==
    IF k > Len(SMALLS) THEN TRUE
    ELSE IF v = SMALLS[k] THEN TRUE
    ELSE IF v % SMALLS[k] = 0 THEN FALSE
    ELSE PrecheckFrom(v, k + 1)

small_prime_precheck(v) == IF v = 1 THEN FALSE ELSE PrecheckFrom(v, 1)

\* generate_probable_prime, lines 51-58: the candidate made from the drawn value.
Candidate_NoTopBit(raw, b) == OrOne(raw)

Candidate(raw, b) == OrOne(SetBit(raw, b - 1))

\* `for _ in 0..rounds`: the loop is over once i rounds were made.
WitnessLoopOver_OneMore(i, r) == i > r

WitnessLoopOver(i, r) == i >= r

(***************************************************************************)
(* Calls and returns.                                                      *)
(***************************************************************************)
ReturnPoint == IF stack = <<>> THEN "done" ELSE Head(stack)

Popped == IF stack = <<>> THEN <<>> ELSE Tail(stack)

(***************************************************************************)
(* Initial states: one call of an entry point with its arguments.          *)
(***************************************************************************)
Start(e, b, r, sf, m, at) ==
    /\ entry = e /\ bits = b /\ rounds = r /\ safe = sf /\ n0 = m
    /\ pc = at /\ stack = <<>>
    /\ gbits = (IF e = "gen" THEN b ELSE 0) /\ gen_n = 0
    /\ safe_q = 0 /\ safe_p = 0
    /\ mr_n = (IF e = "mr" THEN m ELSE 0)
    /\ mr_s = 0 /\ mr_d = 0 /\ mr_i = 0 /\ mr_a = 0 /\ mr_x = 0 /\ mr_k = 0
    /\ verdict = "none"
    /\ fot_n = (IF e = "fot" THEN m ELSE 0) /\ fot_d = 0 /\ fot_s = 0
    /\ res = FALSE /\ val = 0
    /\ drawn = 0 /\ accepted = {} /\ lastgen = 0

Calls ==
    \/ \E b \in 0..MaxBits, r \in 0..MaxRounds, sf \in BOOLEAN :
          Start("main", b, r, sf, 0, "main")
    \/ \E b \in 0..MaxBits, r \in 0..MaxRounds :
          Start("gen", b, r, FALSE, 0, "gen")
    \/ \E b \in 0..MaxBits, r \in 0..MaxRounds :
          Start("safe", b, r, TRUE, 0, "safe")
    \/ \E m \in TestN, r \in 0..MaxRounds :
          Start("mr", 0, r, FALSE, m, "mr")
    \/ \E m \in TestN :
          Start("fot", 0, 0, FALSE, m, "fot")

WideCall(r) == Start("gen", WideBits, r, FALSE, 0, "gen")

Init == Calls \/ WideCall(0) \/ WideCall(1)

(***************************************************************************)
(* main (lines 28-44).  The assertion fails for every bit length below     *)
(* MinBits.  Otherwise main calls a generator, prints what it returns and  *)
(* exits, so the generator's return ends the run.                          *)
(***************************************************************************)
Main ==
    /\ pc = "main"
    /\ IF bits < MinBits
       THEN pc' = "panic" /\ UNCHANGED gbits
       ELSE IF safe
            THEN pc' = "safe" /\ UNCHANGED gbits
            ELSE pc' = "gen" /\ gbits' = bits
    /\ UNCHANGED <<argv, stack, gen_n, safev, mrv, fotv, res, val, hist>>

(***************************************************************************)
(* generate_probable_prime (lines 47-68).                                  *)
(***************************************************************************)
\* Lines 50-58: draw raw, force the top bit and oddness.  With bits = 0 the
\* subtraction bits_u64 - 1 overflows: a debug build panics there, a release
\* build asks set_bit for bit 2^64 - 1 and dies allocating it.
GenDrawOf(raw) ==
    /\ IF gbits = 0
       THEN pc' = "panic" /\ UNCHANGED gen_n
       ELSE pc' = "gen_precheck" /\ gen_n' = Candidate(raw, gbits)
    /\ UNCHANGED <<argv, stack, gbits, safev, mrv, fotv, res, val, hist>>

GenDraw ==
    /\ pc = "gen"
    /\ \E raw \in gen_biguint(gbits) : GenDrawOf(raw)

\* Lines 60-64: `continue` when the precheck fails, else call is_probable_prime.
GenPrecheck_Inverted ==
    /\ pc = "gen_precheck"
    /\ IF small_prime_precheck(gen_n)
       THEN /\ pc' = "gen"
            /\ gen_n' = 0
            /\ UNCHANGED <<stack, mr_n>>
       ELSE /\ pc' = "mr"
            /\ mr_n' = gen_n
            /\ stack' = <<"gen_test">> \o stack
            /\ UNCHANGED gen_n
    /\ UNCHANGED <<argv, gbits, safev, mr_s, mr_d, mr_i, mr_a, mr_x, mr_k, verdict, fotv,
                   res, val, drawn, accepted, lastgen>>

GenPrecheck ==
    /\ pc = "gen_precheck"
    /\ IF ~small_prime_precheck(gen_n)
       THEN /\ pc' = "gen"
            /\ gen_n' = 0
            /\ UNCHANGED <<stack, mr_n>>
       ELSE /\ pc' = "mr"
            /\ mr_n' = gen_n
            /\ stack' = <<"gen_test">> \o stack
            /\ UNCHANGED gen_n
    /\ UNCHANGED <<argv, gbits, safev, mr_s, mr_d, mr_i, mr_a, mr_x, mr_k, verdict, fotv,
                   res, val, drawn, accepted, lastgen>>

\* Lines 64-66: return n when is_probable_prime returned true, else loop.
GenTest ==
    /\ pc = "gen_test"
    /\ IF res
       THEN /\ pc' = ReturnPoint
            /\ stack' = Popped
            /\ val' = gen_n
            /\ lastgen' = gen_n
       ELSE /\ pc' = "gen"
            /\ UNCHANGED <<stack, val, lastgen>>
    /\ gen_n' = 0
    /\ mr_n' = 0 /\ mr_s' = 0 /\ mr_d' = 0 /\ mr_i' = 0 /\ mr_a' = 0
    /\ mr_x' = 0 /\ mr_k' = 0 /\ verdict' = "none" /\ drawn' = 0
    /\ UNCHANGED <<argv, gbits, safev, fotv, res, accepted>>

(***************************************************************************)
(* generate_safe_prime (lines 71-81).                                      *)
(***************************************************************************)
\* Line 72.
SafeEnter ==
    /\ pc = "safe"
    /\ pc' = (IF bits >= SafeMinBits THEN "safe_loop" ELSE "panic")
    /\ UNCHANGED <<argv, stack, genv, safev, mrv, fotv, res, val, hist>>

\* Lines 73-75: call generate_probable_prime(q_bits, rounds).
SafeLoop ==
    /\ pc = "safe_loop"
    /\ LET q_bits == bits - 1
       IN  gbits' = q_bits
    /\ pc' = "gen"
    /\ stack' = <<"safe_q">> \o stack
    /\ accepted' = {}
    /\ UNCHANGED <<argv, gen_n, safev, mrv, fotv, res, val, drawn, lastgen>>

\* Lines 75-77: q is what the call returned, p = (q << 1) + 1, call
\* is_probable_prime(p, rounds).
SafeQ_PlusThree ==
    /\ pc = "safe_q"
    /\ safe_q' = val
    /\ safe_p' = (val * 2) + 3
    /\ mr_n' = safe_p'
    /\ pc' = "mr"
    /\ stack' = <<"safe_test">> \o stack
    /\ UNCHANGED <<argv, genv, mr_s, mr_d, mr_i, mr_a, mr_x, mr_k, verdict, fotv, res,
                   val, hist>>

SafeQ ==
    /\ pc = "safe_q"
    /\ safe_q' = val
    /\ safe_p' = (val * 2) + 1
    /\ mr_n' = safe_p'
    /\ pc' = "mr"
    /\ stack' = <<"safe_test">> \o stack
    /\ UNCHANGED <<argv, genv, mr_s, mr_d, mr_i, mr_a, mr_x, mr_k, verdict, fotv, res,
                   val, hist>>

\* Lines 77-79: return p when is_probable_prime returned true, else loop.
SafeTest ==
    /\ pc = "safe_test"
    /\ IF res
       THEN /\ pc' = ReturnPoint
            /\ stack' = Popped
            /\ val' = safe_p
            /\ UNCHANGED safev
       ELSE /\ pc' = "safe_loop"
            /\ safe_q' = 0 /\ safe_p' = 0
            /\ UNCHANGED <<stack, val>>
    /\ mr_n' = 0 /\ mr_s' = 0 /\ mr_d' = 0 /\ mr_i' = 0 /\ mr_a' = 0
    /\ mr_x' = 0 /\ mr_k' = 0 /\ verdict' = "none" /\ drawn' = 0
    /\ UNCHANGED <<argv, genv, fotv, res, accepted, lastgen>>

(***************************************************************************)
(* is_probable_prime (lines 84-124).                                       *)
(***************************************************************************)
\* Lines 85-99: the shortcuts, then the call factor_out_twos(&n_minus_one).
MrEnter ==
    /\ pc = "mr"
    /\ drawn' = 0
    /\ IF mr_n < 2 \/ (mr_n # 2 /\ is_even(mr_n))
       THEN /\ res' = FALSE
            /\ pc' = ReturnPoint /\ stack' = Popped
            /\ UNCHANGED <<fot_n, accepted>>
       ELSE IF mr_n = 2
       THEN /\ res' = TRUE
            /\ accepted' = accepted \cup {<<mr_n, mr_i>>}
            /\ pc' = ReturnPoint /\ stack' = Popped
            /\ UNCHANGED fot_n
       ELSE /\ LET n_minus_one == mr_n - 1
               IN  fot_n' = n_minus_one
            /\ pc' = "fot"
            /\ stack' = <<"mr_fot">> \o stack
            /\ UNCHANGED <<res, accepted>>
    /\ UNCHANGED <<argv, genv, safev, mrv, fot_d, fot_s, val, lastgen>>

\* Line 99: (s, d) is the pair factor_out_twos returned; line 102 starts the loop.
MrFot ==
    /\ pc = "mr_fot"
    /\ mr_s' = fot_s /\ mr_d' = fot_d
    /\ mr_i' = 0
    /\ fot_n' = 0 /\ fot_d' = 0 /\ fot_s' = 0
    /\ pc' = "mr_loop"
    /\ UNCHANGED <<argv, stack, genv, safev, mr_n, mr_a, mr_x, mr_k, verdict, res,
                   val, hist>>

\* Lines 102-103: the loop goes on, a = random_range(&two, &n_minus_one, &mut rng).
MrDraw ==
    /\ pc = "mr_loop"
    /\ ~WitnessLoopOver(mr_i, rounds)
    /\ LET two == 2
           n_minus_one == mr_n - 1
       IN  mr_a' \in random_range(two, n_minus_one)
    /\ drawn' = drawn + 1
    /\ pc' = "mr_round"
    /\ UNCHANGED <<argv, stack, genv, safev, mr_n, mr_s, mr_d, mr_i, mr_x, mr_k,
                   verdict, fotv, res, val, accepted, lastgen>>

\* Lines 104-108: x = a.modpow(&d, n); the round is survived when x is 1 or
\* n - 1, else the inner loop starts.
MrPower ==
    /\ pc = "mr_round"
    /\ LET x == modpow(mr_a, mr_d, mr_n)
           one == 1
           n_minus_one == mr_n - 1
       IN  IF x = one \/ x = n_minus_one
           THEN /\ verdict' = "survives"
                /\ mr_x' = x
                /\ pc' = "mr_continue"
                /\ UNCHANGED mr_k
           ELSE /\ mr_x' = x
                /\ mr_k' = 1
                /\ pc' = "mr_square"
                /\ UNCHANGED verdict
    /\ UNCHANGED <<argv, stack, genv, safev, mr_n, mr_s, mr_d, mr_i, mr_a, fotv, res,
                   val, hist>>

\* Lines 110-120: one iteration of `for _ in 1..s`, or the return false after it.
MrSquare_Short ==
    /\ pc = "mr_square"
    /\ IF mr_k >= mr_s - 1
       THEN /\ verdict' = "exhausted"
            /\ res' = FALSE
            /\ pc' = ReturnPoint /\ stack' = Popped
            /\ UNCHANGED <<mr_x, mr_k>>
       ELSE LET x == modpow(mr_x, 2, mr_n)
            IN  IF x = mr_n - 1
                THEN /\ verdict' = "survives"
                     /\ mr_x' = x
                     /\ pc' = "mr_continue"
                     /\ UNCHANGED <<stack, res, mr_k>>
                ELSE IF x = 1
                THEN /\ verdict' = "one"
                     /\ mr_x' = x
                     /\ res' = FALSE
                     /\ pc' = ReturnPoint /\ stack' = Popped
                     /\ UNCHANGED mr_k
                ELSE /\ mr_x' = x
                     /\ mr_k' = mr_k + 1
                     /\ UNCHANGED <<pc, stack, res, verdict>>
    /\ UNCHANGED <<argv, genv, safev, mr_n, mr_s, mr_d, mr_i, mr_a, fotv, val, hist>>

MrSquare_OneSurvives ==
    /\ pc = "mr_square"
    /\ IF mr_k >= mr_s
       THEN /\ verdict' = "exhausted"
            /\ res' = FALSE
            /\ pc' = ReturnPoint /\ stack' = Popped
            /\ UNCHANGED <<mr_x, mr_k>>
       ELSE LET x == modpow(mr_x, 2, mr_n)
            IN  IF x = mr_n - 1 \/ x = 1
                THEN /\ verdict' = "survives"
                     /\ mr_x' = x
                     /\ pc' = "mr_continue"
                     /\ UNCHANGED <<stack, res, mr_k>>
                ELSE /\ mr_x' = x
                     /\ mr_k' = mr_k + 1
                     /\ UNCHANGED <<pc, stack, res, verdict>>
    /\ UNCHANGED <<argv, genv, safev, mr_n, mr_s, mr_d, mr_i, mr_a, fotv, val, hist>>

MrSquare ==
    /\ pc = "mr_square"
    /\ IF mr_k >= mr_s
       THEN /\ verdict' = "exhausted"
            /\ res' = FALSE
            /\ pc' = ReturnPoint /\ stack' = Popped
            /\ UNCHANGED <<mr_x, mr_k>>
       ELSE LET x == modpow(mr_x, 2, mr_n)
            IN  IF x = mr_n - 1
                THEN /\ verdict' = "survives"
                     /\ mr_x' = x
                     /\ pc' = "mr_continue"
                     /\ UNCHANGED <<stack, res, mr_k>>
                ELSE IF x = 1
                THEN /\ verdict' = "one"
                     /\ mr_x' = x
                     /\ res' = FALSE
                     /\ pc' = ReturnPoint /\ stack' = Popped
                     /\ UNCHANGED mr_k
                ELSE /\ mr_x' = x
                     /\ mr_k' = mr_k + 1
                     /\ UNCHANGED <<pc, stack, res, verdict>>
    /\ UNCHANGED <<argv, genv, safev, mr_n, mr_s, mr_d, mr_i, mr_a, fotv, val, hist>>

\* continue 'witness (lines 107 and 113): a and x are dropped, the next
\* round begins.
MrContinue ==
    /\ pc = "mr_continue"
    /\ mr_i' = mr_i + 1
    /\ mr_a' = 0 /\ mr_x' = 0 /\ mr_k' = 0
    /\ pc' = "mr_loop"
    /\ UNCHANGED <<argv, stack, genv, safev, mr_n, mr_s, mr_d, verdict, fotv, res,
                   val, hist>>

\* Line 123: the loop is over, return true.
MrFinish ==
    /\ pc = "mr_loop"
    /\ WitnessLoopOver(mr_i, rounds)
    /\ res' = TRUE
    /\ accepted' = accepted \cup {<<mr_n, mr_i>>}
    /\ pc' = ReturnPoint /\ stack' = Popped
    /\ UNCHANGED <<argv, genv, safev, mrv, fotv, val, drawn, lastgen>>

(***************************************************************************)
(* factor_out_twos (lines 127-135).                                        *)
(***************************************************************************)
\* Lines 128-129.
FotEnter ==
    /\ pc = "fot"
    /\ fot_s' = 0
    /\ fot_d' = fot_n
    /\ pc' = "fot_loop"
    /\ UNCHANGED <<argv, stack, genv, safev, mrv, fot_n, res, val, hist>>

\* Lines 130-134: one evaluation of the while condition.  s is a u32: when
\* s += 1 overflows, a debug build panics and a release build wraps.
FotLoop_ShiftTwice ==
    /\ pc = "fot_loop"
    /\ IF is_even(fot_d)
       THEN /\ fot_d' = fot_d \div 4
            /\ IF fot_s + 1 < MaxS
               THEN fot_s' = fot_s + 1 /\ UNCHANGED <<pc, stack>>
               ELSE \/ pc' = "panic" /\ UNCHANGED <<fot_s, stack>>
                    \/ fot_s' = 0 /\ UNCHANGED <<pc, stack>>
       ELSE /\ pc' = ReturnPoint /\ stack' = Popped
            /\ UNCHANGED <<fot_d, fot_s>>
    /\ UNCHANGED <<argv, genv, safev, mrv, fot_n, res, val, hist>>

FotLoop ==
    /\ pc = "fot_loop"
    /\ IF is_even(fot_d)
       THEN /\ fot_d' = fot_d \div 2
            /\ IF fot_s + 1 < MaxS
               THEN fot_s' = fot_s + 1 /\ UNCHANGED <<pc, stack>>
               ELSE \/ pc' = "panic" /\ UNCHANGED <<fot_s, stack>>
                    \/ fot_s' = 0 /\ UNCHANGED <<pc, stack>>
       ELSE /\ pc' = ReturnPoint /\ stack' = Popped
            /\ UNCHANGED <<fot_d, fot_s>>
    /\ UNCHANGED <<argv, genv, safev, mrv, fot_n, res, val, hist>>

(***************************************************************************)
(* The program.                                                            *)
(***************************************************************************)
Next ==
    \/ Main
    \/ GenDraw
    \/ GenPrecheck
    \/ GenTest
    \/ SafeEnter
    \/ SafeLoop
    \/ SafeQ
    \/ SafeTest
    \/ MrEnter
    \/ MrFot
    \/ MrDraw
    \/ MrPower
    \/ MrSquare
    \/ MrContinue
    \/ MrFinish
    \/ FotEnter
    \/ FotLoop

Spec == Init /\ [][Next]_vars

(***************************************************************************)
(* Scheduling.  The program is one thread that keeps running (WF on Next). *)
(* OsRng draws are uniform and independent, so a loop that keeps drawing   *)
(* candidates of one bit length draws each of them again and again, and    *)
(* with them the candidates of any set of them: here the primes q, and     *)
(* inside generate_safe_prime the primes q with 2q + 1 prime.              *)
(***************************************************************************)
RECURSIVE NoDivisorFrom(_, _)
NoDivisorFrom(v, k) ==
    IF k * k > v THEN TRUE
    ELSE IF v % k = 0 THEN FALSE
    ELSE NoDivisorFrom(v, k + 1)

\* The primes below 2^(WideBits + 1), which exceeds every number of the model.
PrimeTable == {v \in 2..Pow2(WideBits + 1) : NoDivisorFrom(v, 2)}

IsPrime(v) == IF v <= Pow2(WideBits + 1) THEN v \in PrimeTable
              ELSE v >= 2 /\ NoDivisorFrom(v, 2)

Composite(v) == v >= 4 /\ ~IsPrime(v)

InSafeLoop == stack # <<>> /\ Head(stack) = "safe_q"

DrawGood ==
    /\ GenDraw
    /\ IsPrime(gen_n')
    /\ InSafeLoop => IsPrime(2 * gen_n' + 1)

\* The calls of the fair runs: the wide bit length with rounds = 0 only.
FairInit == Calls \/ WideCall(0)

FairSpec == FairInit /\ [][Next]_vars /\ WF_vars(Next) /\ SF_vars(DrawGood)

(***************************************************************************)
(* Vocabulary of the properties.                                           *)
(***************************************************************************)
\* The number of trailing zero bits of m > 0.
RECURSIVE TrailingZeros(_)
TrailingZeros(m) == IF m % 2 = 1 THEN 0 ELSE 1 + TrailingZeros(m \div 2)

\* w is a strong liar for the odd number v >= 3: with v - 1 = t * 2^z, t odd,
\* w^t = 1 or w^(t * 2^r) = -1 (mod v) for some r < z.
StrongLiar(w, v) ==
    LET z == TrailingZeros(v - 1)
        t == (v - 1) \div Pow2(z)
    IN  \/ modpow(w, t, v) = 1
        \/ \E r \in 0..(z - 1) : modpow(w, t * Pow2(r), v) = v - 1

\* A generator called by the caller has returned val.
GenReturned == pc = "done" /\ entry \in {"main", "gen", "safe"}

\* The latest is_probable_prime(mr_n, rounds) call has just returned res.
MrReturned == pc \in {"gen_test", "safe_test"} \/ (pc = "done" /\ entry = "mr")

(***************************************************************************)
(* Properties.                                                             *)
(***************************************************************************)
\* C1: every value a generator returns passes small_prime_precheck.
C1_ReturnedPassesPrecheck == GenReturned => small_prime_precheck(val)

\* C2: every value generate_probable_prime(bits, rounds) or
\* generate_safe_prime(bits, rounds) returns is odd and has exactly bits bits.
C2_ReturnedOddExactBits ==
    GenReturned =>
        /\ ~is_even(val)
        /\ BitLen(val) = bits
        /\ Pow2(bits - 1) <= val /\ val < Pow2(bits)

C2_Witness ==
    /\ pc = "done" /\ entry = "safe" /\ bits = 6 /\ val = 47 /\ rounds = 2

\* C3 as stated: is_probable_prime(n, rounds) returns false for every
\* composite n, every rounds >= 1 and every witness drawn.
C3_CompositeRejected ==
    (pc = "done" /\ entry = "mr" /\ rounds >= 1 /\ Composite(n0)) => ~res

\* C3 amended: an even composite is always rejected; on an odd composite a
\* round is survived exactly when its witness is a strong liar for n, the
\* first round whose witness is not one returns false, and true is returned
\* when all rounds witnesses are strong liars (n - 1 always is one).
C3_CompositeRejectedUnlessLiars ==
    Composite(mr_n) =>
        /\ (MrReturned /\ is_even(mr_n)) => ~res
        /\ pc = "mr_continue" => StrongLiar(mr_a, mr_n)
        /\ (MrReturned /\ verdict \in {"one", "exhausted"})
              => (~res /\ ~StrongLiar(mr_a, mr_n))
        /\ (MrReturned /\ ~is_even(mr_n) /\ verdict \in {"none", "survives"})
              => (res /\ mr_i = rounds)

C3_Witness ==
    /\ pc = "done" /\ entry = "mr" /\ n0 = 561 /\ rounds = 2
    /\ ~res /\ mr_i = 1 /\ drawn = 2 /\ mr_a = 2

\* C4: is_probable_prime returns true for every prime n, whatever the rounds
\* and the witnesses; the inner loop never meets x == 1 and never runs out.
C4_PrimeAccepted ==
    IsPrime(mr_n) =>
        /\ verdict \in {"none", "survives"}
        /\ MrReturned => res

C4_Witness ==
    /\ pc = "done" /\ entry = "mr" /\ n0 = 7919 /\ rounds = 2 /\ res /\ drawn = 2

\* C5: the p that generate_safe_prime returns is 2q + 1 for the q that
\* generate_probable_prime(bits - 1, rounds) returned in the same iteration;
\* q is odd, has bits - 1 bits, passes the precheck, and is_probable_prime
\* accepted q and p after rounds rounds.
C5_SafePair ==
    (pc = "done" /\ entry = "safe") =>
        LET qq == (val - 1) \div 2
        IN  /\ val = 2 * qq + 1
            /\ val = safe_p
            /\ qq = safe_q
            /\ qq = lastgen
            /\ ~is_even(qq)
            /\ BitLen(qq) = bits - 1
            /\ small_prime_precheck(qq)
            /\ <<qq, rounds>> \in accepted
            /\ <<val, rounds>> \in accepted

C5_Witness ==
    /\ pc = "done" /\ entry = "safe" /\ bits = 5 /\ rounds = 2
    /\ val = 23 /\ safe_q = 11

\* C6: a generation request with bits < 512 fails before any candidate is
\* drawn, through main and through the generators called directly.
C6_SmallBitsFail ==
    (entry \in {"main", "gen", "safe"} /\ bits < MinBits)
        => pc \in {"main", "gen", "safe", "panic"}

\* C7: for odd n >= 5 every witness drawn lies in [2, n - 2].
C7_WitnessRange ==
    (pc = "mr_round" /\ mr_n >= 5) => (2 <= mr_a /\ mr_a <= mr_n - 2)

FactoredOut(m) ==
    /\ ~is_even(fot_d)
    /\ fot_d * Pow2(fot_s) = m
    /\ fot_s = TrailingZeros(m)

\* C9 as stated: for every non-negative n, factor_out_twos(n) returns (s, d)
\* with d odd and d * 2^s = n.
C9_FactorOutTwos == (entry = "fot") ~> (pc = "done" /\ FactoredOut(n0))

\* C9 amended: so it does for every positive n, and so inside
\* is_probable_prime for n - 1.
C9_FactorOutTwosPositive ==
    /\ (entry = "fot" /\ n0 >= 1) ~> (pc = "done" /\ FactoredOut(n0))
    /\ [](pc = "mr_fot" => FactoredOut(mr_n - 1))

C9_Witness ==
    /\ entry = "fot" /\ n0 = 48 /\ pc = "done" /\ fot_s = 4 /\ fot_d = 3

\* C10 as stated: is_probable_prime returns true only after exactly rounds
\* witnesses were drawn.
C10_TrueAfterRoundsWitnesses == (MrReturned /\ res) => drawn = rounds

\* C10 amended: for odd n >= 3, true is returned after exactly rounds
\* witnesses, all survived, and false at the first failing witness; with
\* rounds = 0 no witness is drawn and generate_probable_prime returns the
\* first candidate that passes the precheck.  (n = 2 returns true with no
\* witness drawn.)
C10_ExactRounds ==
    /\ (MrReturned /\ mr_n >= 3 /\ ~is_even(mr_n)) =>
          IF res
          THEN drawn = rounds /\ mr_i = rounds
          ELSE /\ drawn = mr_i + 1 /\ drawn <= rounds
               /\ verdict \in {"one", "exhausted"}
    /\ pc = "mr_loop" => drawn = mr_i
    /\ pc \in {"mr_round", "mr_square", "mr_continue"}
          => (drawn = mr_i + 1 /\ drawn <= rounds)
    /\ rounds = 0 => drawn = 0
    /\ (rounds = 0 /\ MrReturned /\ mr_n >= 3 /\ ~is_even(mr_n)) => res
    /\ (rounds = 0 /\ pc = "done" /\ entry = "gen") => small_prime_precheck(val)

C10_Witness ==
    /\ pc = "done" /\ entry = "gen" /\ bits = WideBits /\ rounds = 0
    /\ Composite(val)

=============================================================================
